---- MODULE Spec2Model ----
(***************************************************************************)
(* Model of app/services/manager/base_manager.py: TaskManager, the         *)
(* bounded-concurrency task manager.  One manager object, its lock, its    *)
(* queue and its counter; callers of add_task and one thread per           *)
(* dispatched job interleave at the granularity of the lock.               *)
(*                                                                         *)
(* A job identifier names one submission.  After the job's thread has      *)
(* ended the identifier may be used for a new submission (the manager      *)
(* keeps nothing about a finished job), so the stream of submissions is    *)
(* unbounded while the state space stays finite.                           *)
(***************************************************************************)
EXTENDS Integers, Sequences, FiniteSets, TLC

\* ---- bounds ----
MaxJobs == 3
MaxLimit == 2

Jobs == 1..MaxJobs
\* values settings.max_concurrent_tasks (an unvalidated int) may hold;
\* 0 stands for the non-positive ones
Limits == 0..MaxLimit
NoThread == 0

VARIABLES
    max_concurrent_tasks,   \* self.max_concurrent_tasks
    current_tasks,          \* self.current_tasks
    lock,                   \* self.lock: NoThread, or the job whose caller/thread holds it
    queue,                  \* self.queue (queue.Queue), head first
    pc,                     \* per job: where its add_task caller or its thread stands
    outcome,                \* per job: how func(*args, **kwargs) ended
    path,                   \* per job: branch add_task took ("direct" / "queued")
    starts,                 \* per job: number of thread.start() calls for it
    incs,                   \* per job: number of "current_tasks += 1" executed by its thread
    decs,                   \* per job: number of "current_tasks -= 1" executed by its thread
    submitted,              \* order in which add_task critical sections handled the live jobs
    waited,                 \* queued jobs that have seen a "current_tasks -= 1" since they were enqueued
    llm                     \* one call of generate_script / generate_terms: its loop state

manager_vars == <<max_concurrent_tasks, current_tasks, lock, queue, pc, outcome, path,
                  starts, incs, decs, submitted, waited>>

vars == <<manager_vars, llm>>

\* ---- pure pieces of the code ----

\* "self.current_tasks < self.max_concurrent_tasks" (add_task, check_queue)
HasCapacity(cur, max) == cur < max

\* a put that inserts at the head
QueuePutFront(q, j) == <<j>> \o q

\* queue.put(task): append at the tail
QueuePut(q, j) == Append(q, j)

\* a get that leaves the element in the queue
QueuePeek(q) == <<Head(q), q>>

\* a get that takes the newest element
QueueGetLast(q) == <<q[Len(q)], SubSeq(q, 1, Len(q) - 1)>>

\* queue.get_nowait() on a non-empty queue: <<element returned, queue left>>
QueueGetNowait(q) == <<Head(q), Tail(q)>>

\* a drain test that is off by one towards draining
DrainAtLimit(cur, max) == cur <= max

\* a drain without the capacity test
DrainAlways(cur, max) == TRUE

\* a drain test that is off by one towards not draining
DrainBelowLimit(cur, max) == cur + 1 < max

\* check_queue: "if self.current_tasks < self.max_concurrent_tasks" before the get
DrainAllowed(cur, max) == HasCapacity(cur, max)

\* an Empty that is not caught: the thread ends with the exception
EmptyNotCaught == "crashed"

\* check_queue on an empty queue: get_nowait raises Empty, "except Empty:
\* return" ends check_queue normally and the with block releases the lock
AfterEmpty == "finished"

\* an increment that is lost
IncrementLost(c) == c

\* "self.current_tasks += 1"
Increment(c) == c + 1

\* a task_done that forgets the decrement
DecrementLost(c) == c

\* "self.current_tasks -= 1"
Decrement(c) == c - 1

\* a run_task that calls func inside the with block
LockKeptForFunc(j) == j

\* leaving "with self.lock:" in run_task releases the lock before func is called
LockAfterIncrement(j) == NoThread

\* run_task after func returned: the finally block calls task_done
AfterReturn == "task_done"

\* a run_task without the finally block: the thread ends on an exception
AfterRaiseNoFinally == "finished"

\* run_task after func raised: the error is caught by "except Exception",
\* logged, and the finally block calls task_done
AfterRaise == "task_done"

Remove(s, j) == SelectSeq(s, LAMBDA x : x # j)
Pos(s, j) == CHOOSE i \in 0..Len(s) : (i > 0 /\ s[i] = j) \/ (i = 0 /\ \A k \in 1..Len(s) : s[k] # j)
InQueue(j) == \E i \in 1..Len(queue) : queue[i] = j

\* ---- generate_text.py: the LLM-call collaborator ----

\* "_max_retries = 5"
_max_retries == 5

\* What _generate_response can return, by kind of string:
\*   "error"     "Error: <message>" (any exception inside is turned into it)
\*   "empty"     ""
\*   "blank"     only whitespace
\*   "markup"    only "*", "#", "[...]" or "(...)"
\*   "text"      other text
\*   "list"      a JSON list of strings, not empty
\*   "emptylist" "[]"
\*   "notlist"   a JSON list with an element that is not a string
\*   "embedded"  text that is not JSON and contains a JSON list of strings
ScriptResponses == {"error", "empty", "blank", "markup", "text"}
TermsResponses == {"error", "empty", "text", "list", "emptylist", "notlist", "embedded"}

\* truth value of a string
Truthy(str) == str # "empty"

\* format_response: removes "*", "#", "[...]" and "(...)"
FormatResponse(str) == IF str = "markup" THEN "empty" ELSE str

\* str.strip()
Strip(str) == IF str = "blank" THEN "empty" ELSE str

\* a loop exit that treats an error-carrying script as a failed attempt
ScriptBreaksUnlessError(final) == Truthy(final) /\ final # "error"

\* generate_script: "if final_script: break"
ScriptBreaks(final) == Truthy(final)

\* generate_terms: search_terms after one response that is not an error;
\* json.loads fails on "empty" and "text" (no list inside: search_terms is
\* kept), and on "embedded" (the list inside is loaded)
TermsLoaded(str, terms) ==
    CASE str \in {"list", "emptylist", "notlist"} -> str
      [] str = "embedded" -> "list"
      [] OTHER -> terms

\* generate_terms: "if search_terms and len(search_terms) > 0: break", not
\* reached after the "continue" of the type check
TermsBreaks(str, terms) == str # "notlist" /\ terms \in {"list", "notlist"}

LlmIdle == [fn |-> "none", pc |-> "idle", i |-> 0, calls |-> <<>>, value |-> "empty"]

\* ---- initial state: TaskManager.__init__ ----
Init ==
    /\ max_concurrent_tasks \in Limits
    /\ current_tasks = 0
    /\ lock = NoThread
    /\ queue = <<>>
    /\ pc = [j \in Jobs |-> "idle"]
    /\ outcome = [j \in Jobs |-> "none"]
    /\ path = [j \in Jobs |-> "none"]
    /\ starts = [j \in Jobs |-> 0]
    /\ incs = [j \in Jobs |-> 0]
    /\ decs = [j \in Jobs |-> 0]
    /\ submitted = <<>>
    /\ waited = {}
    /\ llm = LlmIdle

\* ---- add_task ----

\* a caller enters add_task(func) for a new job and reaches "with self.lock:"
AddTaskCall(j) ==
    /\ pc[j] \in {"idle", "finished"}
    /\ pc' = [pc EXCEPT ![j] = "add_task"]
    /\ outcome' = [outcome EXCEPT ![j] = "none"]
    /\ path' = [path EXCEPT ![j] = "none"]
    /\ starts' = [starts EXCEPT ![j] = 0]
    /\ incs' = [incs EXCEPT ![j] = 0]
    /\ decs' = [decs EXCEPT ![j] = 0]
    /\ submitted' = Remove(submitted, j)
    /\ UNCHANGED <<llm, max_concurrent_tasks, current_tasks, lock, queue>>
    /\ waited' = waited \ {j}

AddTaskAcquire(j) ==
    /\ pc[j] = "add_task"
    /\ lock = NoThread
    /\ lock' = j
    /\ pc' = [pc EXCEPT ![j] = "add_locked"]
    /\ UNCHANGED <<llm, max_concurrent_tasks, current_tasks, queue, outcome, path,
                   starts, incs, decs, submitted>>
    /\ waited' = waited

\* body of the with block: execute_task (thread.start()) or queue.put, then release
AddTaskBody(j) ==
    /\ pc[j] = "add_locked"
    /\ lock = j
    /\ IF HasCapacity(current_tasks, max_concurrent_tasks)
       THEN /\ pc' = [pc EXCEPT ![j] = "run_task"]
            /\ starts' = [starts EXCEPT ![j] = @ + 1]
            /\ path' = [path EXCEPT ![j] = "direct"]
            /\ queue' = queue
       ELSE /\ pc' = [pc EXCEPT ![j] = "queued"]
            /\ queue' = QueuePut(queue, j)
            /\ path' = [path EXCEPT ![j] = "queued"]
            /\ starts' = starts
    /\ submitted' = Append(submitted, j)
    /\ lock' = NoThread
    /\ UNCHANGED <<llm, max_concurrent_tasks, current_tasks, outcome, incs, decs>>
    /\ waited' = waited

\* ---- run_task (the job's thread) ----

RunTaskAcquire(j) ==
    /\ pc[j] = "run_task"
    /\ lock = NoThread
    /\ lock' = j
    /\ pc' = [pc EXCEPT ![j] = "run_locked"]
    /\ UNCHANGED <<llm, max_concurrent_tasks, current_tasks, queue, outcome, path,
                   starts, incs, decs, submitted>>
    /\ waited' = waited

RunTaskIncrement(j) ==
    /\ pc[j] = "run_locked"
    /\ lock = j
    /\ current_tasks' = Increment(current_tasks)
    /\ incs' = [incs EXCEPT ![j] = @ + 1]
    /\ lock' = LockAfterIncrement(j)
    /\ pc' = [pc EXCEPT ![j] = "func"]
    /\ UNCHANGED <<llm, max_concurrent_tasks, queue, outcome, path, starts, decs, submitted>>
    /\ waited' = waited

\* func(*args, **kwargs) returns
FuncReturn(j) ==
    /\ pc[j] = "func"
    /\ outcome' = [outcome EXCEPT ![j] = "returned"]
    /\ pc' = [pc EXCEPT ![j] = AfterReturn]
    /\ UNCHANGED <<llm, max_concurrent_tasks, current_tasks, lock, queue, path,
                   starts, incs, decs, submitted>>
    /\ waited' = waited

\* func(*args, **kwargs) raises; the error is logged, then finally runs
FuncRaise(j) ==
    /\ pc[j] = "func"
    /\ outcome' = [outcome EXCEPT ![j] = "raised"]
    /\ pc' = [pc EXCEPT ![j] = AfterRaise]
    /\ UNCHANGED <<llm, max_concurrent_tasks, current_tasks, lock, queue, path,
                   starts, incs, decs, submitted>>
    /\ waited' = waited

\* ---- task_done ----

TaskDoneAcquire(j) ==
    /\ pc[j] = "task_done"
    /\ lock = NoThread
    /\ lock' = j
    /\ pc' = [pc EXCEPT ![j] = "td_locked"]
    /\ UNCHANGED <<llm, max_concurrent_tasks, current_tasks, queue, outcome, path,
                   starts, incs, decs, submitted>>
    /\ waited' = waited

TaskDoneDecrement(j) ==
    /\ pc[j] = "td_locked"
    /\ lock = j
    /\ current_tasks' = Decrement(current_tasks)
    /\ decs' = [decs EXCEPT ![j] = @ + 1]
    /\ lock' = NoThread
    /\ pc' = [pc EXCEPT ![j] = "check_queue"]
    /\ UNCHANGED <<llm, max_concurrent_tasks, queue, outcome, path, starts, incs, submitted>>
    /\ waited' = waited \cup {x \in Jobs : InQueue(x)}

\* ---- check_queue ----

CheckQueueAcquire(j) ==
    /\ pc[j] = "check_queue"
    /\ lock = NoThread
    /\ lock' = j
    /\ pc' = [pc EXCEPT ![j] = "cq_locked"]
    /\ UNCHANGED <<llm, max_concurrent_tasks, current_tasks, queue, outcome, path,
                   starts, incs, decs, submitted>>
    /\ waited' = waited

\* body of the with block; afterwards the completing thread ends and the
\* manager keeps nothing of its job
CheckQueueBody(j) ==
    /\ pc[j] = "cq_locked"
    /\ lock = j
    /\ IF DrainAllowed(current_tasks, max_concurrent_tasks)
       THEN IF queue = <<>>
            THEN /\ pc' = [pc EXCEPT ![j] = AfterEmpty]
                 /\ UNCHANGED <<queue, starts, waited>>
            ELSE /\ queue' = QueueGetNowait(queue)[2]
                 /\ pc' = [pc EXCEPT ![j] = "finished", ![QueueGetNowait(queue)[1]] = "run_task"]
                 /\ starts' = [starts EXCEPT ![QueueGetNowait(queue)[1]] = @ + 1]
                 /\ waited' = waited \ {QueueGetNowait(queue)[1]}
       ELSE /\ pc' = [pc EXCEPT ![j] = "finished"]
            /\ UNCHANGED <<queue, starts, waited>>
    /\ lock' = NoThread
    /\ submitted' = Remove(submitted, j)
    /\ outcome' = [outcome EXCEPT ![j] = "none"]
    /\ path' = [path EXCEPT ![j] = "none"]
    /\ UNCHANGED <<llm, max_concurrent_tasks, current_tasks, incs, decs>>

Next ==
    \E j \in Jobs :
        \/ AddTaskCall(j)
        \/ AddTaskAcquire(j)
        \/ AddTaskBody(j)
        \/ RunTaskAcquire(j)
        \/ RunTaskIncrement(j)
        \/ FuncReturn(j)
        \/ FuncRaise(j)
        \/ TaskDoneAcquire(j)
        \/ TaskDoneDecrement(j)
        \/ CheckQueueAcquire(j)
        \/ CheckQueueBody(j)

Spec == Init /\ [][Next]_vars

\* ---- generate_script / generate_terms ----

\* generate_script is called: final_script = ""
GenerateScriptCall ==
    /\ llm.pc = "idle"
    /\ llm' = [fn |-> "generate_script", pc |-> "loop", i |-> 0, calls |-> <<>>,
               value |-> "empty"]
    /\ UNCHANGED manager_vars

\* one pass of "for i in range(_max_retries)" in generate_script
ScriptAttempt ==
    /\ llm.fn = "generate_script" /\ llm.pc = "loop"
    /\ llm.i < _max_retries
    /\ \E response \in ScriptResponses :
          LET final == IF Truthy(response) THEN FormatResponse(response) ELSE llm.value
          IN llm' = [llm EXCEPT
                       !.calls = Append(@, response),
                       !.value = final,
                       !.i = @ + 1,
                       !.pc = IF ScriptBreaks(final) \/ llm.i + 1 = _max_retries
                              THEN "after" ELSE "loop"]
    /\ UNCHANGED manager_vars

\* "return final_script.strip()"
ScriptReturn ==
    /\ llm.fn = "generate_script" /\ llm.pc = "after"
    /\ llm' = [llm EXCEPT !.pc = "returned", !.value = Strip(@)]
    /\ UNCHANGED manager_vars

\* generate_terms is called: search_terms = []
GenerateTermsCall ==
    /\ llm.pc = "idle"
    /\ llm' = [fn |-> "generate_terms", pc |-> "loop", i |-> 0, calls |-> <<>>,
               value |-> "emptylist"]
    /\ UNCHANGED manager_vars

\* one pass of "for i in range(_max_retries)" in generate_terms
TermsAttempt ==
    /\ llm.fn = "generate_terms" /\ llm.pc = "loop"
    /\ llm.i < _max_retries
    /\ \E response \in TermsResponses :
          IF response = "error"
          THEN llm' = [llm EXCEPT !.calls = Append(@, response), !.value = "error",
                                  !.pc = "returned"]
          ELSE LET terms == TermsLoaded(response, llm.value)
               IN llm' = [llm EXCEPT
                            !.calls = Append(@, response),
                            !.value = terms,
                            !.i = @ + 1,
                            !.pc = IF TermsBreaks(response, terms) \/ llm.i + 1 = _max_retries
                                   THEN "after" ELSE "loop"]
    /\ UNCHANGED manager_vars

\* "return search_terms"
TermsReturn ==
    /\ llm.fn = "generate_terms" /\ llm.pc = "after"
    /\ llm' = [llm EXCEPT !.pc = "returned"]
    /\ UNCHANGED manager_vars

RetryNext ==
    \/ GenerateScriptCall
    \/ ScriptAttempt
    \/ ScriptReturn
    \/ GenerateTermsCall
    \/ TermsAttempt
    \/ TermsReturn

\* one call of the LLM-call collaborator, the manager left alone
RetrySpec == Init /\ [][RetryNext]_vars

\* ---- fairness ----

\* every step of job j's add_task caller and of its thread, job body excluded
JobStep(j) ==
    \/ AddTaskAcquire(j)
    \/ AddTaskBody(j)
    \/ RunTaskAcquire(j)
    \/ RunTaskIncrement(j)
    \/ TaskDoneAcquire(j)
    \/ TaskDoneDecrement(j)
    \/ CheckQueueAcquire(j)
    \/ CheckQueueBody(j)

\* the job body ends, by returning or by raising
FuncEnds(j) == FuncReturn(j) \/ FuncRaise(j)

\* Fair scheduling of threads with job bodies that terminate: a thread that
\* waits for the lock gets it if the lock keeps being released, a thread
\* that holds the lock runs its critical section, a job body ends.
\* Submissions (AddTaskCall) are left to the environment.
LiveSpec == Spec /\ \A j \in Jobs : SF_vars(JobStep(j) \/ FuncEnds(j))

\* ---- state predicates used by the properties ----

RECURSIVE Sum(_, _)
Sum(f, S) == IF S = {} THEN 0
             ELSE LET x == CHOOSE y \in S : TRUE IN f[x] + Sum(f, S \ {x})

\* the job's thread exists (started and not ended)
ThreadAlive(j) ==
    pc[j] \in {"run_task", "run_locked", "func", "task_done", "td_locked",
               "check_queue", "cq_locked"}

\* the job's body has begun / has ended
BodyStarted(j) ==
    pc[j] \in {"func", "task_done", "td_locked", "check_queue", "cq_locked"}
BodyEnded(j) ==
    pc[j] \in {"task_done", "td_locked", "check_queue", "cq_locked", "finished"}

\* no job thread is alive
Quiescent == \A j \in Jobs : ~ThreadAlive(j)

\* job i went through add_task's critical section before job j did
SubmittedBefore(i, j) ==
    /\ Pos(submitted, i) > 0
    /\ Pos(submitted, i) < Pos(submitted, j)

Occurrences(q, j) == Cardinality({i \in 1..Len(q) : q[i] = j})

\* ---- properties ----

\* C1: with a limit K >= 1, current_tasks never exceeds K
C1_NeverExceedsLimit ==
    max_concurrent_tasks >= 1 => current_tasks <= max_concurrent_tasks

\* C2: with a limit K >= 1, every job passed to add_task eventually has its
\* body executed
C2_EveryJobRuns ==
    \A j \in Jobs :
        (max_concurrent_tasks >= 1 /\ pc[j] = "add_task") ~> (pc[j] = "func")

\* C3: a job has a thread started for it at most once; it is never in the
\* queue twice, and a job with a thread started is not in the queue
C3_DispatchedAtMostOnce ==
    \A j \in Jobs :
        /\ starts[j] <= 1
        /\ Occurrences(queue, j) <= 1
        /\ InQueue(j) => (starts[j] = 0 /\ pc[j] = "queued")
        /\ path[j] = "direct" => ~InQueue(j)

C3_Witness ==
    \E i, j \in Jobs :
        /\ i # j
        /\ path[i] = "queued" /\ starts[i] = 1 /\ BodyStarted(i)
        /\ path[j] = "queued" /\ starts[j] = 1 /\ BodyStarted(j)

\* C4: of two jobs placed in the queue, the one enqueued first is the first
\* to be taken out by check_queue
C4_QueueFIFO ==
    \A x, y \in Jobs :
        (/\ path[x] = "queued" /\ path[y] = "queued"
         /\ SubmittedBefore(x, y)
         /\ InQueue(x))
        => InQueue(y)

C4_Witness ==
    \E x, y \in Jobs :
        /\ path[x] = "queued" /\ path[y] = "queued"
        /\ SubmittedBefore(x, y)
        /\ starts[x] = 1 /\ ~InQueue(x)
        /\ InQueue(y)

\* C5: a job body that raises leaves the manager as one that returns does:
\* the step out of func changes no manager state and no other thread, leads
\* to task_done, task_done decrements current_tasks by one, and no thread
\* ends without its decrement
C5_AlwaysDecrement ==
    [][\A j \in Jobs :
        /\ (pc[j] = "func" /\ pc'[j] # "func") =>
              /\ pc'[j] = "task_done"
              /\ current_tasks' = current_tasks
              /\ queue' = queue
              /\ lock' = lock
              /\ \A i \in Jobs \ {j} : pc'[i] = pc[i]
        /\ (pc[j] = "td_locked" /\ pc'[j] # "td_locked") =>
              /\ current_tasks' = current_tasks - 1
              /\ decs'[j] = decs[j] + 1
        /\ (ThreadAlive(j) /\ pc'[j] = "finished") => decs[j] = 1
      ]_vars

C5_Witness ==
    \E j \in Jobs :
        /\ outcome[j] = "raised" /\ decs[j] = 1
        /\ pc[j] = "cq_locked" /\ lock = j

\* C6: with a limit of 1 the job bodies run one at a time in submission
\* order: a body has started only if every earlier-submitted body has ended
C6_SerializedInOrder ==
    max_concurrent_tasks = 1 =>
        \A i, j \in Jobs :
            (SubmittedBefore(i, j) /\ BodyStarted(j)) => BodyEnded(i)

\* C7: add_task never waits for capacity: the lock is never held by a thread
\* whose job body is executing, a lock holder is always inside one of the
\* four short critical sections and can finish it, and add_task's critical
\* section always completes by dispatching or enqueuing, whatever
\* current_tasks is
C7_AddTaskNeverBlocks ==
    /\ \A j \in Jobs : pc[j] = "func" => lock # j
    /\ lock # NoThread =>
          /\ pc[lock] \in {"add_locked", "run_locked", "td_locked", "cq_locked"}
          /\ ENABLED (\/ AddTaskBody(lock) \/ RunTaskIncrement(lock)
                      \/ TaskDoneDecrement(lock) \/ CheckQueueBody(lock))
    /\ \A j \in Jobs :
          /\ (pc[j] = "add_task" /\ lock = NoThread) => ENABLED AddTaskAcquire(j)
          /\ pc[j] = "add_locked" => ENABLED AddTaskBody(j)

C7_Witness ==
    \E j \in Jobs :
        /\ max_concurrent_tasks >= 1
        /\ pc[j] = "queued"
        /\ Cardinality({i \in Jobs : pc[i] = "func"}) >= max_concurrent_tasks

\* C8: a manager with a non-positive limit never accepts a job
C8_NonPositiveLimitRejected ==
    max_concurrent_tasks <= 0 => \A j \in Jobs : path[j] = "none"

\* C9: each dispatched job increments once and decrements once, current_tasks
\* is the number of increments minus the number of decrements, and when no
\* job thread is alive the two totals agree and current_tasks is 0
C9_CompletionAccounting ==
    /\ \A j \in Jobs :
          /\ decs[j] <= incs[j]
          /\ incs[j] <= starts[j]
          /\ pc[j] = "finished" => (incs[j] = 1 /\ decs[j] = 1)
    /\ current_tasks = Sum(incs, Jobs) - Sum(decs, Jobs)
    /\ Quiescent => (current_tasks = 0 /\ Sum(decs, Jobs) = Sum(incs, Jobs))

C9_Witness ==
    /\ Quiescent
    /\ Cardinality({j \in Jobs : pc[j] = "finished"}) >= 2
    /\ Sum(decs, Jobs) >= 2

\* C10: whenever the lock is free, current_tasks counts every job whose
\* thread has been started and has not yet decremented
C10_CountsEveryDispatched ==
    lock = NoThread =>
        current_tasks = Cardinality({j \in Jobs : pc[j] \in {"run_task", "func", "task_done"}})

\* C11: the decrement and the queue drain of one completion are one critical
\* section, so that a job submitted while older jobs wait in the queue is
\* never dispatched ahead of them
C11_NoBypassOfQueue ==
    \A x, y \in Jobs :
        (InQueue(x) /\ SubmittedBefore(x, y)) => starts[y] = 0

\* C12: add_task without capacity appends the job at the tail of the queue,
\* starts no thread, leaves current_tasks and the queued entries unchanged
\* and returns with the lock released
C12_EnqueueFrame ==
    [][\A j \in Jobs :
        (/\ pc[j] = "add_locked"
         /\ pc'[j] # "add_locked"
         /\ current_tasks >= max_concurrent_tasks) =>
            /\ pc'[j] = "queued"
            /\ queue' = queue \o <<j>>
            /\ starts' = starts
            /\ current_tasks' = current_tasks
            /\ lock' = NoThread
            /\ \A i \in Jobs \ {j} : pc'[i] = pc[i]
      ]_vars

C12_Witness ==
    /\ Len(queue) >= 2
    /\ pc[queue[Len(queue)]] = "queued"
    /\ SubmittedBefore(queue[1], queue[Len(queue)])
    /\ current_tasks >= max_concurrent_tasks
    /\ max_concurrent_tasks >= 1

\* C13: every check_queue that finds the queue non-empty removes the head
\* job and starts its thread
C13_CompletionDrainsHead ==
    [][\A j \in Jobs :
        (pc[j] = "cq_locked" /\ pc'[j] # "cq_locked" /\ queue # <<>>) =>
            /\ queue' = Tail(queue)
            /\ pc'[Head(queue)] = "run_task"
            /\ starts'[Head(queue)] = starts[Head(queue)] + 1
      ]_vars

\* C14: a job leaves the queue only in the check_queue step of another job's
\* completing thread, which starts its thread, and only after some
\* "current_tasks -= 1" has been executed since it was enqueued
C14_OnlyCompletionsDrain ==
    [][\A x \in Jobs :
        (\/ pc[x] = "queued" /\ pc'[x] # "queued"
         \/ InQueue(x) /\ \A i \in 1..Len(queue') : queue'[i] # x) =>
            /\ \E j \in Jobs \ {x} :
                  /\ pc[j] = "cq_locked" /\ lock = j
                  /\ decs[j] = 1
                  /\ pc'[j] = "finished"
            /\ pc'[x] = "run_task"
            /\ x \in waited
      ]_vars

C14_Witness ==
    \E x, j \in Jobs :
        /\ x # j
        /\ path[x] = "queued" /\ pc[x] = "func"
        /\ pc[j] = "finished" /\ decs[j] = 1

\* C15: check_queue on an empty queue ends normally, starts no thread, leaves
\* current_tasks and the queue unchanged and releases the lock
C15_EmptyQueueNoOp ==
    [][\A j \in Jobs :
        (pc[j] = "cq_locked" /\ pc'[j] # "cq_locked" /\ queue = <<>>) =>
            /\ pc'[j] = "finished"
            /\ queue' = <<>>
            /\ current_tasks' = current_tasks
            /\ starts' = starts
            /\ lock' = NoThread
            /\ \A i \in Jobs \ {j} : pc'[i] = pc[i]
      ]_vars

C15_Witness ==
    \E j \in Jobs :
        /\ pc[j] = "finished"
        /\ \A i \in Jobs \ {j} : pc[i] = "idle"
        /\ queue = <<>> /\ current_tasks = 0 /\ lock = NoThread
        /\ max_concurrent_tasks >= 2

\* C16: the queue loses an element only in a step of a thread that holds the
\* lock in check_queue, taken with current_tasks < max_concurrent_tasks
C16_DrainOnlyWithCapacity ==
    [][(\/ Len(queue') < Len(queue)
        \/ \E x \in Jobs : InQueue(x) /\ \A i \in 1..Len(queue') : queue'[i] # x) =>
            /\ current_tasks < max_concurrent_tasks
            /\ lock # NoThread
            /\ pc[lock] = "cq_locked"
      ]_vars

C16_Witness ==
    \E x \in Jobs :
        /\ path[x] = "queued" /\ pc[x] = "run_task"
        /\ lock = NoThread
        /\ current_tasks < max_concurrent_tasks

\* C17: current_tasks is never negative, and a thread's decrement comes
\* after its own increment
C17_NonNegative ==
    /\ current_tasks >= 0
    /\ \A j \in Jobs : decs[j] = 1 => incs[j] = 1

C17_Witness ==
    \E j \in Jobs :
        /\ outcome[j] = "raised" /\ pc[j] = "check_queue"
        /\ decs[j] = 1 /\ current_tasks = 0

\* C19: with a limit K >= 1 and a non-empty queue, the threads started and
\* not yet counted, plus current_tasks, plus the threads that have
\* decremented and not yet finished check_queue, are at least K
C19_WorkConserving ==
    (max_concurrent_tasks >= 1 /\ queue # <<>>) =>
        Cardinality({j \in Jobs : pc[j] \in {"run_task", "run_locked"}})
        + current_tasks
        + Cardinality({j \in Jobs : pc[j] \in {"check_queue", "cq_locked"}})
        >= max_concurrent_tasks

C19_Witness ==
    /\ max_concurrent_tasks >= 2
    /\ queue # <<>>
    /\ \E j \in Jobs : pc[j] = "cq_locked"
    /\ Cardinality({j \in Jobs : ThreadAlive(j)}) = max_concurrent_tasks

\* C18 as claimed: when every call of _generate_response has failed with an
\* error, generate_script and generate_terms return only after _max_retries
\* calls, and never make more
C18_RetriesOnError ==
    /\ Len(llm.calls) <= _max_retries
    /\ (/\ llm.pc = "returned"
        /\ \A k \in 1..Len(llm.calls) : llm.calls[k] = "error")
       => Len(llm.calls) = _max_retries

\* C18 as amended: never more than _max_retries calls; a call that fails with
\* an error is the last one, and the error-carrying result is returned
\* without a further attempt; an earlier call gave an empty or unusable
\* response that is not an error
C18_BoundedRetries ==
    /\ Len(llm.calls) <= _max_retries
    /\ \A k \in 1..Len(llm.calls) :
          llm.calls[k] = "error" =>
              /\ k = Len(llm.calls)
              /\ llm.pc \in {"after", "returned"}
              /\ llm.value = "error"
    /\ \A k \in 1..(Len(llm.calls) - 1) :
          llm.calls[k] \in IF llm.fn = "generate_script"
                           THEN {"empty", "markup"}
                           ELSE {"empty", "text", "emptylist", "notlist"}

C18_Witness ==
    /\ llm.pc = "returned"
    /\ llm.calls = <<"error">>
    /\ llm.value = "error"
====
